---- MODULE Spec2Model ----
(***************************************************************************)
(* Model of smoke/bootstrap.ts, the k6 load-test script.  The file holds   *)
(* two variants of the script: the minimal one (lines 1-87) and the        *)
(* extended one (lines 89-368) with the metrics aggregation and the        *)
(* summary reporter.                                                       *)
(*                                                                         *)
(* Numbers read from the environment are kept in tenths (7.6 is 76), rates *)
(* in percent (0.05 is 5), latencies in milliseconds.  Strings that the    *)
(* code builds are sequences of one-character strings.  An optional value  *)
(* is <<>> (undefined) or <<v>>.                                           *)
(***************************************************************************)
EXTENDS Integers, Sequences, FiniteSets, TLC

VARIABLES
    env,                \* __ENV: MODE, CUSTOM_VUS, CUSTOM_DURATION_SECONDS
    loaded,             \* the module's top-level code has run
    options,            \* the exported options: vus and duration
    variant,            \* which of the two scripts of the file runs
    targetUrl,          \* "" when TARGET_URL and API_BASE_URL are unset
    enforceThresholds,
    statusCounts,       \* Record<number, number>: a function on its keys
    statusOrder,
    dataErrors,         \* auth / client / server -> samples
    authErrorCounter,
    clientErrorCounter,
    serverErrorCounter,
    phase,              \* "running" until handleSummary has run
    warnings,           \* the console.warn lines of handleSummary
    report,             \* what handleSummary rendered
    iterations,         \* invocations of runScenario so far
    raised,             \* invocations whose http.request threw
    last                \* what the latest invocation did

vars == <<env, loaded, options, variant, targetUrl, enforceThresholds,
          statusCounts, statusOrder, dataErrors, authErrorCounter,
          clientErrorCounter, serverErrorCounter, phase, warnings, report,
          iterations, raised, last>>

configVars == <<env, loaded, options>>
runVars == <<variant, targetUrl, enforceThresholds>>
aggVars == <<statusCounts, statusOrder, dataErrors, authErrorCounter,
             clientErrorCounter, serverErrorCounter>>
summaryVars == <<phase, warnings, report>>
ghostVars == <<iterations, raised, last>>

\* ------------------------------------------------------------------ bounds

MaxIter == 6
MaxBrief == 2

\* -------------------------------------------------------- program constants

MaxSamples == 3
TopCodes == 5
FailedRateLimit == 5
P95Limit == 2200
SecondsPerMinute == 60

\* ------------------------------------------------------------------ helpers

Max(a, b) == IF a >= b THEN a ELSE b
Min(a, b) == IF a <= b THEN a ELSE b

Range(s) == {s[i] : i \in 1..Len(s)}

RECURSIVE Digits(_)
\* `${n}` of a non-negative integer
Digits(n) ==
    LET d == <<"0", "1", "2", "3", "4", "5", "6", "7", "8", "9">>
    IN  IF n < 10 THEN <<d[n + 1]>> ELSE Digits(n \div 10) \o <<d[(n % 10) + 1]>>

RECURSIVE Join(_)
\* parts.join('')
Join(parts) == IF parts = <<>> THEN <<>> ELSE Head(parts) \o Join(Tail(parts))

\* Math.round of a number given in tenths: floor(x + 0.5)
MathRound(tenths) == (tenths + 5) \div 10

\* ----------------------------------------------------- configuration (load)

\* the literal of lines 93-99
scenarioOptionsDefault ==
    [SMOKE  |-> [vus |-> 2,  duration |-> <<"3", "0", "s">>],
     STRESS |-> [vus |-> 5,  duration |-> <<"1", "m">>],
     SOAK   |-> [vus |-> 3,  duration |-> <<"2", "m">>],
     SPIKE  |-> [vus |-> 10, duration |-> <<"2", "0", "s">>],
     CUSTOM |-> [vus |-> 20, duration |-> <<"1", "m">>]]

\* faulty variant: the seconds are not reduced modulo 60
formatDurationSecondsModulo(totalSeconds) ==
    LET safeSeconds == Max(1, totalSeconds)
        minutes == safeSeconds \div SecondsPerMinute
        seconds == safeSeconds
        parts1 == IF minutes > 0 THEN <<Digits(minutes) \o <<"m">>>> ELSE <<>>
        parts2 == IF seconds > 0 \/ Len(parts1) = 0
                  THEN Append(parts1, Digits(seconds) \o <<"s">>)
                  ELSE parts1
    IN  Join(parts2)

formatDurationSeconds(totalSeconds) ==
    LET safeSeconds == Max(1, totalSeconds)
        minutes == safeSeconds \div SecondsPerMinute
        seconds == safeSeconds % SecondsPerMinute
        parts1 == IF minutes > 0 THEN <<Digits(minutes) \o <<"m">>>> ELSE <<>>
        parts2 == IF seconds > 0 \/ Len(parts1) = 0
                  THEN Append(parts1, Digits(seconds) \o <<"s">>)
                  ELSE parts1
    IN  Join(parts2)

\* Number(__ENV.X ?? ''): an unset variable and '' give 0
ToNumber(v) == IF v = <<>> THEN [nan |-> FALSE, tenths |-> 0] ELSE v[1]

\* String.prototype.toUpperCase on the mode names the model draws
ToUpperCase(s) ==
    CASE s = "smoke"  -> "SMOKE"
      [] s = "stress" -> "STRESS"
      [] s = "Soak"   -> "SOAK"
      [] s = "spike"  -> "SPIKE"
      [] s = "custom" -> "CUSTOM"
      [] s = "Custom" -> "CUSTOM"
      [] s = "bogus"  -> "BOGUS"
      [] OTHER        -> s

\* scenarioOptions after the two override blocks
scenarioOptions(e) ==
    LET customVusOverride == ToNumber(e.CUSTOM_VUS)
        customDurationOverride == ToNumber(e.CUSTOM_DURATION_SECONDS)
        so1 == IF ~customVusOverride.nan /\ customVusOverride.tenths > 0
               THEN [scenarioOptionsDefault EXCEPT
                        !.CUSTOM.vus = MathRound(customVusOverride.tenths)]
               ELSE scenarioOptionsDefault
        so2 == IF ~customDurationOverride.nan /\ customDurationOverride.tenths > 0
               THEN [so1 EXCEPT !.CUSTOM.duration =
                        formatDurationSeconds(MathRound(customDurationOverride.tenths))]
               ELSE so1
    IN  so2

selectedMode(e) == ToUpperCase(IF e.MODE = <<>> THEN "SMOKE" ELSE e.MODE[1])

\* options: scenarioOptions[selectedMode] ?? scenarioOptions.SMOKE
Options(e) ==
    LET so == scenarioOptions(e)
    IN  IF selectedMode(e) \in DOMAIN so THEN so[selectedMode(e)] ELSE so.SMOKE

ModeInputs ==
    {<<>>} \cup {<<m>> : m \in {"", "smoke", "SMOKE", "stress", "STRESS", "Soak",
                               "SOAK", "spike", "SPIKE", "custom", "Custom",
                               "CUSTOM", "bogus", "SMOKE2"}}

NumberOf(t) == [nan |-> FALSE, tenths |-> t]
NotANumber == [nan |-> TRUE, tenths |-> 0]

VusInputs ==
    {<<>>, <<NotANumber>>} \cup
    {<<NumberOf(t)>> : t \in {-10, 0, 4, 5, 10, 74, 75, 76, 200}}

DurationInputs ==
    {<<>>, <<NotANumber>>} \cup
    {<<NumberOf(t)>> : t \in {-10, 0, 4, 5, 10, 450, 594, 595, 600, 610, 1250,
                             1254, 1255, 36000, 36590}}

DefaultEnv == [MODE |-> <<>>, CUSTOM_VUS |-> <<>>, CUSTOM_DURATION_SECONDS |-> <<>>]

NoOptions == [vus |-> 0, duration |-> <<>>]

\* --------------------------------------------------------------- aggregator

NoReport == [rateFailed |-> <<>>, p95 |-> <<>>, auth |-> <<>>, client |-> <<>>,
             server |-> <<>>, topCodes |-> <<>>, diagnostic |-> FALSE]

NoLast == [kind |-> "none", status |-> 0, sleeps |-> 0, exit |-> "none"]

EmptyErrors == [auth |-> <<>>, client |-> <<>>, server |-> <<>>]

AggInit ==
    /\ statusCounts = [k \in {} |-> 0]
    /\ statusOrder = <<>>
    /\ dataErrors = EmptyErrors
    /\ authErrorCounter = 0
    /\ clientErrorCounter = 0
    /\ serverErrorCounter = 0
    /\ phase = "running"
    /\ warnings = {}
    /\ report = NoReport
    /\ iterations = 0
    /\ raised = 0
    /\ last = NoLast

\* ------------------------------------------------ per-iteration entry point

Statuses == {0, 200, 400, 401, 403, 500}

\* What http.request does in one invocation: it throws (an Error with a
\* message, or a value without one), or it returns a response descriptor.
Outcomes ==
    {[kind |-> "raise", status |-> 0, error |-> m] : m \in {<<>>, <<"dial failed">>}}
    \cup {[kind |-> "resp", status |-> s,
           error |-> IF s = 0 THEN <<"request timeout">> ELSE <<>>] : s \in Statuses}

IsErrorStatus(status) == status = 0 \/ status >= 400

\* faulty variant: the 4xx test comes before the 401/403 test
BucketClientFirst(status) ==
    IF status >= 400 /\ status < 500 THEN "client"
    ELSE IF status = 401 \/ status = 403 THEN "auth"
    ELSE "server"

\* lines 211-216
Bucket(status) ==
    IF status = 401 \/ status = 403 THEN "auth"
    ELSE IF status >= 500 \/ status = 0 THEN "server"
    ELSE "client"

\* faulty variant: the cap test is <= instead of <
PushSampleOffByOne(existing, sample) ==
    IF Len(existing) <= MaxSamples THEN Append(existing, sample) ELSE existing

\* existing.length < 3 ? push : keep
PushSample(existing, sample) ==
    IF Len(existing) < MaxSamples THEN Append(existing, sample) ELSE existing

\* the sample of the catch branch
CaughtSample(error, url) ==
    [status |-> 0,
     message |-> IF error = <<>> THEN <<"request threw">> ELSE error,
     url |-> url]

\* the sample of an error response: response.error || `HTTP ${status}`
ResponseSample(response, url) ==
    [status |-> response.status,
     message |-> IF response.error # <<>> THEN response.error
                 ELSE <<"HTTP ">> \o Digits(response.status),
     url |-> url]

\* faulty variant: the caught failure goes to the client bucket
CatchBranchClient(errors, error, url) ==
    [errors EXCEPT !.client = PushSample(@, CaughtSample(error, url))]

\* dataErrors after the catch branch
CatchBranch(errors, error, url) ==
    [errors EXCEPT !.server = PushSample(@, CaughtSample(error, url))]

\* faulty variant: the count is set to 1 instead of incremented
CountStatusReset(counts, status) ==
    [k \in DOMAIN counts \cup {status} |-> IF k = status THEN 1 ELSE counts[k]]

\* statusCounts[status] = (statusCounts[status] ?? 0) + 1
CountStatus(counts, status) ==
    [k \in DOMAIN counts \cup {status} |->
        IF k = status
        THEN (IF status \in DOMAIN counts THEN counts[status] ELSE 0) + 1
        ELSE counts[k]]

\* faulty variant: the includes test is missing
OrderStatusAlways(order, status) == Append(order, status)

\* if (!statusOrder.includes(status)) statusOrder.push(status)
OrderStatus(order, status) ==
    IF status \in Range(order) THEN order ELSE Append(order, status)

\* runScenario of the minimal variant (lines 71-87): no try around the request
runScenarioMinimal(o) ==
    /\ variant = "minimal"
    /\ phase = "running"
    /\ iterations < MaxIter
    /\ iterations' = iterations + 1
    /\ IF targetUrl = ""
       THEN /\ last' = [kind |-> "skip", status |-> 0, sleeps |-> 1, exit |-> "returned"]
            /\ raised' = raised
       ELSE IF o.kind = "raise"
       THEN /\ last' = [kind |-> "raise", status |-> 0, sleeps |-> 0, exit |-> "threw"]
            /\ raised' = raised + 1
       ELSE /\ last' = [kind |-> "resp", status |-> o.status, sleeps |-> 1,
                        exit |-> "returned"]
            /\ raised' = raised
    /\ UNCHANGED <<configVars, runVars, aggVars, summaryVars>>

\* runScenario of the extended variant (lines 173-236)
runScenario(o) ==
    /\ variant = "extended"
    /\ phase = "running"
    /\ iterations < MaxIter
    /\ iterations' = iterations + 1
    /\ IF targetUrl = ""
       THEN /\ last' = [kind |-> "skip", status |-> 0, sleeps |-> 1, exit |-> "returned"]
            /\ raised' = raised
            /\ UNCHANGED aggVars
       ELSE IF o.kind = "raise"
       THEN /\ dataErrors' = CatchBranch(dataErrors, o.error, targetUrl)
            /\ serverErrorCounter' = serverErrorCounter + 1
            /\ last' = [kind |-> "raise", status |-> 0, sleeps |-> 1, exit |-> "returned"]
            /\ raised' = raised + 1
            /\ UNCHANGED <<statusCounts, statusOrder, authErrorCounter, clientErrorCounter>>
       ELSE /\ statusCounts' = CountStatus(statusCounts, o.status)
            /\ statusOrder' = OrderStatus(statusOrder, o.status)
            /\ IF IsErrorStatus(o.status)
               THEN LET bucket == Bucket(o.status)
                    IN  /\ dataErrors' = [dataErrors EXCEPT ![bucket] =
                                PushSample(@, ResponseSample(o, targetUrl))]
                        /\ authErrorCounter' =
                                authErrorCounter + IF bucket = "auth" THEN 1 ELSE 0
                        /\ clientErrorCounter' =
                                clientErrorCounter + IF bucket = "client" THEN 1 ELSE 0
                        /\ serverErrorCounter' =
                                serverErrorCounter +
                                IF bucket \notin {"auth", "client"} THEN 1 ELSE 0
               ELSE UNCHANGED <<dataErrors, authErrorCounter, clientErrorCounter,
                                serverErrorCounter>>
            /\ last' = [kind |-> "resp", status |-> o.status, sleeps |-> 1,
                        exit |-> "returned"]
            /\ raised' = raised
    /\ UNCHANGED <<configVars, runVars, summaryVars>>

\* ---------------------------------------------------------- summary reporter

\* data.metrics as the runtime hands it over: each metric may carry a number
\* at its top level and under .values
RateValues == {<<>>, <<0>>, <<5>>, <<10>>}
P95Values == {<<>>, <<2000>>, <<2200>>, <<3000>>}

SummaryData ==
    [failedRate : RateValues, failedValuesRate : RateValues,
     durationP95 : P95Values, durationValuesP95 : P95Values]

\* the shape k6 delivers (numbers under .values), below and above the limits
TypicalData ==
    {[failedRate |-> <<>>, failedValuesRate |-> <<r>>,
      durationP95 |-> <<>>, durationValuesP95 |-> <<p>>] :
        <<r, p>> \in {<<0, 2000>>, <<10, 3000>>}}

IsNumber(v) == v # <<>>

\* x ?? y
Coalesce(x, y) == IF x # <<>> THEN x ELSE y

\* lines 247-257
ThresholdWarnings(data) ==
    IF enforceThresholds THEN {}
    ELSE (IF IsNumber(data.failedRate) /\ data.failedRate[1] > FailedRateLimit
          THEN {"http_req_failed"} ELSE {})
         \cup
         (IF IsNumber(data.durationP95) /\ data.durationP95[1] > P95Limit
          THEN {"http_req_duration"} ELSE {})

\* one bucket's line of the Errors section: <<>> renders "none"
ErrorLine(errors) ==
    IF Len(errors) # 0 THEN <<[count |-> Len(errors), example |-> errors[1]]>> ELSE <<>>

\* the "top codes" line: <<>> renders "none captured"
TopCodesLine(order, counts) ==
    [i \in 1..Min(TopCodes, Len(order)) |->
        [code |-> order[i],
         count |-> IF order[i] \in DOMAIN counts THEN counts[order[i]] ELSE 0]]

handleSummary(data) ==
    /\ variant = "extended"
    /\ phase = "running"
    /\ phase' = "reported"
    /\ warnings' = ThresholdWarnings(data)
    /\ LET rateFailed == Coalesce(data.failedRate, data.failedValuesRate)
           p95 == data.durationValuesP95
       IN  report' = [rateFailed |-> rateFailed,
                      p95 |-> p95,
                      auth |-> ErrorLine(dataErrors.auth),
                      client |-> ErrorLine(dataErrors.client),
                      server |-> ErrorLine(dataErrors.server),
                      topCodes |-> TopCodesLine(statusOrder, statusCounts),
                      diagnostic |->
                          /\ rateFailed # <<>> /\ rateFailed[1] > 0
                          /\ Len(dataErrors.auth) + Len(dataErrors.client)
                               + Len(dataErrors.server) = 0]
    /\ UNCHANGED <<configVars, runVars, aggVars, ghostVars>>

\* ------------------------------------------------------------ specifications

Init ==
    /\ env = DefaultEnv
    /\ loaded = TRUE
    /\ options = Options(DefaultEnv)
    /\ variant \in {"minimal", "extended"}
    /\ targetUrl \in {"", "http://target"}
    /\ enforceThresholds \in (IF variant = "extended" THEN BOOLEAN ELSE {FALSE})
    /\ AggInit

Iterate == \E o \in Outcomes : runScenario(o)

IterateMinimal == \E o \in Outcomes : runScenarioMinimal(o)

Summarise == \E data \in TypicalData : handleSummary(data)

Next == Iterate \/ IterateMinimal \/ Summarise

Spec == Init /\ [][Next]_vars

\* short runs of the extended variant over a wide range of statuses, reported
\* with every shape of statistics
WideStatuses == {0, 1, 200, 204, 301, 399, 400, 401, 402, 403, 404, 429, 499,
                 500, 503, 599}

WideOutcomes ==
    {[kind |-> "raise", status |-> 0, error |-> m] : m \in {<<>>, <<"dial failed">>}}
    \cup {[kind |-> "resp", status |-> s,
           error |-> IF s = 0 THEN <<"request timeout">> ELSE <<>>] : s \in WideStatuses}

InitBrief == Init /\ variant = "extended"

IterateBrief == iterations < MaxBrief /\ \E o \in WideOutcomes : runScenario(o)

SummariseAny == \E data \in SummaryData : handleSummary(data)

NextBrief == IterateBrief \/ SummariseAny

SpecBrief == InitBrief /\ [][NextBrief]_vars

\* module load: the top-level code of the script, for every environment
InitConfig ==
    /\ env \in [MODE : ModeInputs, CUSTOM_VUS : VusInputs,
                CUSTOM_DURATION_SECONDS : DurationInputs]
    /\ loaded = FALSE
    /\ options = NoOptions
    /\ variant = "extended"
    /\ targetUrl = ""
    /\ enforceThresholds = FALSE
    /\ AggInit

LoadModule ==
    /\ ~loaded
    /\ loaded' = TRUE
    /\ options' = Options(env)
    /\ UNCHANGED <<env, runVars, aggVars, summaryVars, ghostVars>>

NextConfig == LoadModule

SpecConfig == InitConfig /\ [][NextConfig]_vars

\* ------------------------------------------------------------------ claims

RECURSIVE SumOver(_, _)
SumOver(f, S) ==
    IF S = {} THEN 0
    ELSE LET k == CHOOSE x \in S : TRUE IN f[k] + SumOver(f, S \ {k})

SumStatusCounts == SumOver(statusCounts, DOMAIN statusCounts)

Buckets == {"auth", "client", "server"}

\* the bucket the data model of the specification gives an error status
ClaimedBucket(s) ==
    CASE s \in {401, 403}     -> "auth"
      [] s >= 500 \/ s = 0    -> "server"
      [] OTHER                -> "client"

IsPrefix(a, b) == Len(a) <= Len(b) /\ \A i \in 1..Len(a) : a[i] = b[i]

\* one invocation of the extended runScenario has just happened
Invoked == variant = "extended" /\ iterations' = iterations + 1

\* C1 as stated: for every configuration, the sum of statusCounts plus the
\* number of invocations whose transport call raised equals the number of
\* invocations.
C1_Original ==
    variant = "extended" => SumStatusCounts + raised = iterations

\* C1 amended: the sum of statusCounts plus the number of invocations whose
\* transport call raised equals the number of invocations that issued a
\* request: all of them when a target url is set, none when it is absent.
C1_Amended ==
    variant = "extended" =>
        SumStatusCounts + raised = (IF targetUrl # "" THEN iterations ELSE 0)

C1_Witness ==
    /\ variant = "extended" /\ targetUrl # ""
    /\ iterations >= 4 /\ raised >= 1
    /\ \E k \in DOMAIN statusCounts : statusCounts[k] >= 2
    /\ Cardinality(DOMAIN statusCounts) >= 2

\* C2: a returned status s is classified by precedence: 401/403 increment only
\* the auth counter, by 1; else s >= 500 or s = 0 only the server counter;
\* else 400 <= s < 500 only the client counter; 1 <= s < 400 changes no error
\* counter and no sample bucket.
C2_Classification ==
    [][(Invoked /\ last'.kind = "resp") =>
        LET s == last'.status
            da == authErrorCounter' - authErrorCounter
            dc == clientErrorCounter' - clientErrorCounter
            ds == serverErrorCounter' - serverErrorCounter
        IN  CASE s = 401 \/ s = 403    -> da = 1 /\ dc = 0 /\ ds = 0
              [] s >= 500 \/ s = 0     -> da = 0 /\ dc = 0 /\ ds = 1
              [] s >= 400 /\ s < 500   -> da = 0 /\ dc = 1 /\ ds = 0
              [] s >= 1 /\ s < 400     -> /\ da = 0 /\ dc = 0 /\ ds = 0
                                          /\ dataErrors' = dataErrors
              [] OTHER                 -> TRUE]_vars

C2_Witness ==
    /\ variant = "extended" /\ last.kind = "resp" /\ last.status = 401
    /\ authErrorCounter = 1 /\ clientErrorCounter = 1 /\ serverErrorCounter = 0

\* C3: every bucket holds at most 3 samples, and they are the first errors
\* classified into it, in order: a bucket changes only by appending the sample
\* of the error just classified into it, which happens exactly while it holds
\* fewer than 3.  A 403 response increments the auth counter and appends one
\* status-403 sample to the auth bucket, which never exceeds 3 samples.
C3_FirstSamples ==
    /\ [](\A b \in Buckets : Len(dataErrors[b]) <= 3)
    /\ [][Invoked =>
            \A b \in Buckets :
                LET errorHere ==
                        \/ last'.kind = "raise" /\ b = "server"
                        \/ /\ last'.kind = "resp"
                           /\ last'.status = 0 \/ last'.status >= 400
                           /\ ClaimedBucket(last'.status) = b
                IN  IF errorHere /\ Len(dataErrors[b]) < 3
                    THEN /\ Len(dataErrors'[b]) = Len(dataErrors[b]) + 1
                         /\ IsPrefix(dataErrors[b], dataErrors'[b])
                         /\ dataErrors'[b][Len(dataErrors'[b])].status = last'.status
                         /\ dataErrors'[b][Len(dataErrors'[b])].url = targetUrl
                    ELSE dataErrors'[b] = dataErrors[b]]_vars
    /\ [][(Invoked /\ last'.kind = "resp" /\ last'.status = 403) =>
            authErrorCounter' = authErrorCounter + 1]_vars

C3_Witness ==
    /\ variant = "extended" /\ last.kind = "resp" /\ last.status = 403
    /\ authErrorCounter = 4
    /\ Len(dataErrors.auth) = 3
    /\ dataErrors.auth[1].status = 401 /\ dataErrors.auth[2].status = 403

\* C4: when the transport call raises, the iteration increments the server
\* counter by 1, leaves statusCounts, statusOrder and the auth and client
\* buckets and counters unchanged, and adds at most one sample, of status 0,
\* to the server bucket.
C4_TransportFailure ==
    [][(Invoked /\ last'.kind = "raise") =>
        /\ serverErrorCounter' = serverErrorCounter + 1
        /\ statusCounts' = statusCounts
        /\ statusOrder' = statusOrder
        /\ authErrorCounter' = authErrorCounter
        /\ clientErrorCounter' = clientErrorCounter
        /\ dataErrors'.auth = dataErrors.auth
        /\ dataErrors'.client = dataErrors.client
        /\ \/ dataErrors'.server = dataErrors.server
           \/ /\ Len(dataErrors'.server) = Len(dataErrors.server) + 1
              /\ IsPrefix(dataErrors.server, dataErrors'.server)
              /\ dataErrors'.server[Len(dataErrors'.server)].status = 0]_vars

C4_Witness ==
    /\ variant = "extended" /\ last.kind = "raise"
    /\ serverErrorCounter = 2
    /\ Len(dataErrors.server) = 2
    /\ dataErrors.client # <<>>
    /\ DOMAIN statusCounts # {}

\* C5 as stated: every invocation, in both variants, returns normally after
\* pausing exactly once; no transport failure propagates out of it.
C5_AlwaysReturns ==
    iterations > 0 => last.exit = "returned" /\ last.sleeps = 1

\* C9 as stated: each bucket's line of the Errors section shows the count of
\* errors classified into the bucket with its first sample, or "none" exactly
\* when no error was classified into it.
C9_ErrorLines ==
    phase = "reported" =>
        \A b \in Buckets :
            LET classified == CASE b = "auth"   -> authErrorCounter
                                [] b = "client" -> clientErrorCounter
                                [] OTHER        -> serverErrorCounter
            IN  IF classified = 0
                THEN report[b] = <<>>
                ELSE /\ report[b] # <<>>
                     /\ report[b][1].count = classified
                     /\ report[b][1].example = dataErrors[b][1]

\* C10: statusOrder has no duplicate, lists the codes in the order each was
\* first returned, and holds exactly the keys of statusCounts, each counted at
\* least once; the top-codes line shows the first min(5, length) entries of
\* statusOrder in order with their counts, or "none captured" when no status
\* was ever returned.
C10_StatusOrder ==
    /\ [](/\ \A i, j \in 1..Len(statusOrder) :
                statusOrder[i] = statusOrder[j] => i = j
          /\ Range(statusOrder) = DOMAIN statusCounts
          /\ \A k \in DOMAIN statusCounts : statusCounts[k] >= 1
          /\ phase = "reported" =>
                /\ Len(report.topCodes) =
                        IF Len(statusOrder) <= 5 THEN Len(statusOrder) ELSE 5
                /\ \A i \in 1..Len(report.topCodes) :
                        /\ report.topCodes[i].code = statusOrder[i]
                        /\ report.topCodes[i].count = statusCounts[statusOrder[i]]
                /\ report.topCodes = <<>> <=>
                        (targetUrl = "" \/ iterations = raised))
    /\ [][Invoked =>
            IF last'.kind = "resp" /\ last'.status \notin Range(statusOrder)
            THEN statusOrder' = Append(statusOrder, last'.status)
            ELSE statusOrder' = statusOrder]_vars

C10_Witness ==
    /\ phase = "reported"
    /\ Len(statusOrder) > 5
    /\ Len(report.topCodes) = 5
    /\ report.topCodes[1].code = 500 /\ report.topCodes[5].code = 200

\* ------------------------------------------------- claims on configuration

\* the nearest integer to a number given in tenths, halves going up
NearestHalfUp(t) ==
    CHOOSE n \in 0..((t \div 10) + 1) : 10 * n - 5 <= t /\ t < 10 * n + 5

DigitValue(c) == CHOOSE i \in 0..9 : Digits(i) = <<c>>

RECURSIVE DurationValue(_, _, _)
\* the seconds a duration string such as "2m5s" denotes; -1 when it ends
\* in digits without a unit
DurationValue(str, num, total) ==
    IF str = <<>> THEN (IF num = 0 THEN total ELSE -1)
    ELSE LET c == Head(str)
         IN  IF c = "m" THEN DurationValue(Tail(str), 0, total + 60 * num)
             ELSE IF c = "s" THEN DurationValue(Tail(str), 0, total + num)
             ELSE DurationValue(Tail(str), 10 * num + DigitValue(c), total)

DurationSeconds(str) == DurationValue(str, 0, 0)

\* "{m}m{s}s" as the claim words it: no minutes token when m = 0, no seconds
\* token exactly when s = 0 and m > 0
ClaimedFormat(n) ==
    LET m == n \div 60
        sec == n % 60
    IN  (IF m = 0 THEN <<>> ELSE Digits(m) \o <<"m">>)
        \o (IF sec = 0 /\ m > 0 THEN <<>> ELSE Digits(sec) \o <<"s">>)

ProfileNames == {"SMOKE", "STRESS", "SOAK", "SPIKE", "CUSTOM"}

ModeUpper == selectedMode(env)
VusOverride == ToNumber(env.CUSTOM_VUS)
DurationOverride == ToNumber(env.CUSTOM_DURATION_SECONDS)
IsPositive(x) == ~x.nan /\ x.tenths > 0

\* C6 as stated: the resolved concurrency is always a positive integer: for
\* CUSTOM with a positive override v it is v rounded half up, otherwise the
\* default of the named profile, and the SMOKE default for any other name.
C6_Concurrency ==
    loaded =>
        /\ options.vus \in Nat \ {0}
        /\ IF ModeUpper = "CUSTOM" /\ IsPositive(VusOverride)
           THEN options.vus = NearestHalfUp(VusOverride.tenths)
           ELSE IF ModeUpper \in ProfileNames
           THEN options.vus = scenarioOptionsDefault[ModeUpper].vus
           ELSE options.vus = scenarioOptionsDefault.SMOKE.vus

\* C6 without the positivity: which value the concurrency resolves to
C6_Resolution ==
    loaded =>
        IF ModeUpper = "CUSTOM" /\ IsPositive(VusOverride)
        THEN options.vus = NearestHalfUp(VusOverride.tenths)
        ELSE IF ModeUpper \in ProfileNames
        THEN options.vus = scenarioOptionsDefault[ModeUpper].vus
        ELSE options.vus = scenarioOptionsDefault.SMOKE.vus

\* C7 as stated: for CUSTOM and a positive duration override d, the duration
\* string is round(d) formatted as "{m}m{s}s" and denotes round(d) seconds.
C7_Original ==
    (loaded /\ ModeUpper = "CUSTOM" /\ IsPositive(DurationOverride)) =>
        LET n == NearestHalfUp(DurationOverride.tenths)
        IN  /\ options.duration = ClaimedFormat(n)
            /\ DurationSeconds(options.duration) = n

\* C7 amended: for CUSTOM and a positive duration override d, the duration
\* string is n = max(1, round(d)) formatted as "{m}m{s}s" (no minutes token
\* when m = 0, no seconds token exactly when s = 0 and m > 0) and denotes
\* exactly n seconds.
C7_Amended ==
    (loaded /\ ModeUpper = "CUSTOM" /\ IsPositive(DurationOverride)) =>
        LET n == Max(1, NearestHalfUp(DurationOverride.tenths))
        IN  /\ options.duration = ClaimedFormat(n)
            /\ DurationSeconds(options.duration) = n

C7_Witness ==
    /\ loaded /\ ModeUpper = "CUSTOM"
    /\ env.CUSTOM_DURATION_SECONDS = <<NumberOf(1250)>>
    /\ options.duration = <<"2", "m", "5", "s">>

\* ------------------------------------------------------ claims on reporting

\* C8 as stated: with enforceThresholds false, a failed rate that the report
\* displays above 0.05 gives a failed-rate warning and a displayed p95 above
\* 2200 ms gives a latency warning; with enforceThresholds true there is no
\* warning.
C8_Warnings ==
    phase = "reported" =>
        IF enforceThresholds
        THEN warnings = {}
        ELSE /\ (report.rateFailed # <<>> /\ report.rateFailed[1] > 5)
                    => "http_req_failed" \in warnings
             /\ (report.p95 # <<>> /\ report.p95[1] > 2200)
                    => "http_req_duration" \in warnings

====
